---- MODULE Spec2Model ----
(***************************************************************************)
(* Model of munki's macOS upgrade supervisor                               *)
(* (code/client/munkilib/osinstaller.py): StartOSInstallRunner.start, its  *)
(* SIGUSR1 handler, get_app_path and the startosinstall() wrapper, running *)
(* against a child job (launchd.Job), a disk image service and a           *)
(* cooperative stop flag.                                                  *)
(*                                                                         *)
(* The orchestrator is one Python thread: `pc` is its position in start(). *)
(* Python runs a signal handler in that same thread between two bytecodes, *)
(* so while `hstack` (the stack of active handler frames) is not empty the *)
(* orchestrator does not move.  The child and the stop flag move freely.   *)
(***************************************************************************)
EXTENDS Integers, Sequences, FiniteSets, TLC

\* ------------------------------------------------------------------ bounds
\* lines the child may write to its standard output in one attempt
MaxLines == 2
\* SIGUSR1 signals the child may send in one attempt
MaxHandshakes == 1
\* osinstaller.py:208 sets timeout = 2 * 60 * 60 empty reads; the model
\* counts the same ceiling in a scaled unit so that the ceiling is reached.
timeout == 3

\* --------------------------------------------------------------- constants
None == "None"
MountPoint == "/Volumes/Install"
ExitCodes == {0, 1}
NoCode == <<>>

\* ----------------------------------------------------------------- strings
\* A str is a sequence of one-character strings; "xFF" stands for a byte
\* that is not valid UTF-8.
S_PreparingTo == <<"P","r","e","p","a","r","i","n","g"," ","t","o"," ">>
S_Preparing == <<"P","r","e","p","a","r","i","n","g"," ">>
S_ByUsing == <<"B","y"," ","u","s","i","n","g"," ","t","h","e"," ",
                "a","g","r","e","e","t","o","l","i","c","e","n","s","e"," ",
                "o","p","t","i","o","n">>
S_IfYouDoNot == <<"I","f"," ","y","o","u"," ","d","o"," ","n","o","t"," ",
                   "a","g","r","e","e",",">>
S_SignalingPID == <<"S","i","g","n","a","l","i","n","g"," ","P","I","D",":">>
S_WaitingToReboot == <<"W","a","i","t","i","n","g"," ","t","o"," ",
                        "r","e","b","o","o","t">>
S_ProcessSignaled == <<"P","r","o","c","e","s","s"," ","s","i","g","n","a",
                        "l","e","d"," ","o","k","a","y">>

Whitespace == {" ", "\n", "\t", "\r"}
Digits == {"0","1","2","3","4","5","6","7","8","9"}

DigitVal(c) ==
    CASE c = "0" -> 0 [] c = "1" -> 1 [] c = "2" -> 2 [] c = "3" -> 3
      [] c = "4" -> 4 [] c = "5" -> 5 [] c = "6" -> 6 [] c = "7" -> 7
      [] c = "8" -> 8 [] c = "9" -> 9

\* str.startswith(prefix)
startswith(s, p) ==
    /\ Len(s) >= Len(p)
    /\ SubSeq(s, 1, Len(p)) = p

\* str.rstrip(chars): drop the trailing run of characters in chars
RECURSIVE rstrip(_, _)
rstrip(s, chars) ==
    IF s # <<>> /\ s[Len(s)] \in chars
    THEN rstrip(SubSeq(s, 1, Len(s) - 1), chars)
    ELSE s

\* str.lstrip(chars)
RECURSIVE lstrip(_, _)
lstrip(s, chars) ==
    IF s # <<>> /\ s[1] \in chars THEN lstrip(Tail(s), chars) ELSE s

\* str.decode('UTF-8'): raises UnicodeDecodeError on an invalid byte
decode_raises(s) == \E i \in 1..Len(s) : s[i] = "xFF"

\* value of a sequence of decimal digits
RECURSIVE DigitsVal(_)
DigitsVal(s) ==
    IF s = <<>> THEN 0
    ELSE 10 * DigitsVal(SubSeq(s, 1, Len(s) - 1)) + DigitVal(s[Len(s)])

AllDigits(s) == \A i \in 1..Len(s) : s[i] \in Digits

\* index of the first "." in s, or 0
DotAt(s) ==
    IF \E i \in 1..Len(s) : s[i] = "."
    THEN CHOOSE i \in 1..Len(s) : s[i] = "." /\ \A j \in 1..(i-1) : s[j] # "."
    ELSE 0

\* int(float(text)): [kind |-> "ok", val |-> n], or the exception raised.
\* float() strips surrounding whitespace, takes an optional sign, then
\* digits with at most one ".", or inf / nan; int() truncates toward zero,
\* raises OverflowError on an infinity and ValueError on a nan.
IntOfFloat(text) ==
    LET t == rstrip(lstrip(text, Whitespace), Whitespace)
        signed == t # <<>> /\ t[1] \in {"+", "-"}
        neg == t # <<>> /\ t[1] = "-"
        body == IF signed THEN Tail(t) ELSE t
        dot == DotAt(body)
        ipart == IF dot = 0 THEN body ELSE SubSeq(body, 1, dot - 1)
        fpart == IF dot = 0 THEN <<>> ELSE SubSeq(body, dot + 1, Len(body))
    IN  IF body \in {<<"i","n","f">>, <<"i","n","f","i","n","i","t","y">>}
        THEN [kind |-> "OverflowError", val |-> 0]
        ELSE IF body = <<"n","a","n">>
        THEN [kind |-> "ValueError", val |-> 0]
        ELSE IF /\ AllDigits(ipart) /\ AllDigits(fpart)
                /\ Len(ipart) + Len(fpart) > 0
        THEN [kind |-> "ok",
              val |-> IF neg THEN 0 - DigitsVal(ipart) ELSE DigitsVal(ipart)]
        ELSE [kind |-> "ValueError", val |-> 0]

\* osinstaller.py:248  int(float(msg[10:].rstrip().rstrip('.')))
PercentOf(msg) ==
    IntOfFloat(rstrip(rstrip(SubSeq(msg, 11, Len(msg)), Whitespace), {"."}))

\* mutant of Classify: the "Preparing " rule is tried before "Preparing to "
Classify_percentFirst(info_output) ==
    LET msg == rstrip(info_output, {"\n"})
    IN  IF startswith(msg, S_Preparing)
        THEN LET p == PercentOf(msg)
             IN  IF p.kind = "ok"
                 THEN [call |-> "display_percent_done", percent |-> p.val]
                 ELSE IF p.kind = "ValueError"
                 THEN [call |-> "display_percent_done", percent |-> -1]
                 ELSE [call |-> "raise"]
        ELSE IF startswith(msg, S_PreparingTo)
        THEN [call |-> "display_status_minor"]
        ELSE IF startswith(msg, S_ByUsing) \/ startswith(msg, S_IfYouDoNot)
        THEN [call |-> "pass"]
        ELSE IF \/ startswith(msg, S_SignalingPID)
                \/ startswith(msg, S_WaitingToReboot)
                \/ startswith(msg, S_ProcessSignaled)
        THEN [call |-> "display_debug1"]
        ELSE [call |-> "display_status_minor"]

\* osinstaller.py:242-263  what start() does with one decoded output line:
\* the status-display call made, the percent shown, or the error raised
Classify(info_output) ==
    LET msg == rstrip(info_output, {"\n"})
    IN  IF startswith(msg, S_PreparingTo)
        THEN [call |-> "display_status_minor"]
        ELSE IF startswith(msg, S_Preparing)
        THEN LET p == PercentOf(msg)
             IN  IF p.kind = "ok"
                 THEN [call |-> "display_percent_done", percent |-> p.val]
                 ELSE IF p.kind = "ValueError"
                 THEN [call |-> "display_percent_done", percent |-> -1]
                 ELSE [call |-> "raise"]
        ELSE IF startswith(msg, S_ByUsing) \/ startswith(msg, S_IfYouDoNot)
        THEN [call |-> "pass"]
        ELSE IF \/ startswith(msg, S_SignalingPID)
                \/ startswith(msg, S_WaitingToReboot)
                \/ startswith(msg, S_ProcessSignaled)
        THEN [call |-> "display_debug1"]
        ELSE [call |-> "display_status_minor"]

\* output lines the child may write: a percent-complete message and a line
\* that is not valid UTF-8
L_Percent == S_Preparing \o <<"4","2",".","0",".","\n">>
L_BadUTF8 == <<"o","k","xFF","\n">>
Lines == {L_Percent, L_BadUTF8}


\* ------------------------------------------------------------------- state
VARIABLES
    pc,                    \* orchestrator position in start()
    result,                \* what startosinstall() gave its caller
    installer,             \* kind of self.installer: app, dmg or other
    hasTasks,              \* self.finishing_tasks is set
    dmg_mountpoint,        \* self.dmg_mountpoint
    didMount,              \* this attempt mounted the disk image
    unmounts,              \* calls of dmgutils.unmountdmg on the mount point
    handlerInstalled,      \* signal.signal(SIGUSR1, ...) has run
    got_sigusr1,           \* self.got_sigusr1
    hstack,                \* active handler frames, innermost first; a
                           \* frame is the list of statements it has run
    sigPending,            \* a SIGUSR1 is pending for the orchestrator
    handshakes,            \* SIGUSR1 signals the child has sent
    tasksRun,              \* completed calls of the finishing_tasks callback
    markerAttempts,        \* attempts to write CHECKANDINSTALLATSTARTUPFLAG
    marker,                \* the resume-at-boot marker file exists
    replies,               \* killall -SIGUSR1 startosinstall calls
    childState,            \* notstarted, running or exited
    exitCode,              \* the child's exit code once exited
    stopSent,              \* job.stop() has been called
    stdoutBuf,             \* lines written by the child and not yet read
    written,               \* all lines the child has written so far
    stderrBuf,             \* what job.stderr.read() will give
    startosinstall_output, \* the captured output
    inactive,              \* the inactivity counter
    info_output,           \* the line just read
    retcode,               \* local retcode of start()
    percent,               \* percent last given to the status display
    shown,                 \* status-display call made for the last line
    stop_flag,             \* processes.stop_requested() would return True
    emptyReads,            \* consecutive empty reads since the last line
    stalled,               \* the stall ceiling was reached
    \* munkicommon/processes.py and the pure parts of osinstaller.py
    call,                  \* <<function, arguments>> of the call under way
    ret,                   \* <<>>, or <<value>> once the call has returned
    flpc,                  \* position in forceLogoutNow()
    users,                 \* forceLogoutNow's users dict, as a set of
                           \* <<user, pid>> pairs
    todo,                  \* users the kill loop has still to visit
    logoutMarker,          \* the installatlogout marker file was created
    killed                 \* the os.kill calls made so far, in order, as
                           \* <<pid, delivered>> pairs

vars == <<pc, result, installer, hasTasks, dmg_mountpoint, didMount, unmounts,
          handlerInstalled, got_sigusr1, hstack, sigPending, handshakes,
          tasksRun, markerAttempts, marker, replies, childState, exitCode,
          stopSent, stdoutBuf, written, stderrBuf, startosinstall_output,
          inactive, info_output, retcode, percent, shown, stop_flag,
          emptyReads, stalled, call, ret, flpc, users, todo, logoutMarker,
          killed>>

\* groups used in UNCHANGED
libVars == <<call, ret, flpc, users, todo, logoutMarker, killed>>
sessionVars == <<installer, hasTasks>>
mountVars == <<dmg_mountpoint, didMount, unmounts>>
handlerVars == <<got_sigusr1, hstack, sigPending, tasksRun, markerAttempts,
                 marker, replies>>
childVars == <<childState, exitCode, stdoutBuf, written, stderrBuf,
               handshakes>>
loopVars == <<startosinstall_output, inactive, info_output, percent, shown,
              emptyReads, stalled>>

\* no library call is under way
LibIdle ==
    /\ call = <<>>
    /\ ret = <<>>
    /\ flpc = "idle"
    /\ users = {}
    /\ todo = {}
    /\ logoutMarker = FALSE
    /\ killed = <<>>

\* StartOSInstallRunner.__init__ (osinstaller.py:83-87) and the locals of
\* start() before its first statement
RunnerInit ==
    /\ pc = "start"
    /\ result = None
    /\ dmg_mountpoint = None
    /\ didMount = FALSE
    /\ unmounts = 0
    /\ handlerInstalled = FALSE
    /\ got_sigusr1 = FALSE
    /\ hstack = <<>>
    /\ sigPending = FALSE
    /\ handshakes = 0
    /\ tasksRun = 0
    /\ markerAttempts = 0
    /\ marker = FALSE
    /\ replies = 0
    /\ childState = "notstarted"
    /\ exitCode = NoCode
    /\ stopSent = FALSE
    /\ stdoutBuf = <<>>
    /\ written = <<>>
    /\ stderrBuf = <<>>
    /\ startosinstall_output = <<>>
    /\ inactive = 0
    /\ info_output = <<>>
    /\ retcode = NoCode
    /\ percent = -1    \* run() shows an indeterminate bar (osinstaller.py:366)
    /\ shown = None
    /\ stop_flag = FALSE
    /\ emptyReads = 0
    /\ stalled = FALSE

Init ==
    /\ RunnerInit
    /\ installer \in {"app", "dmg", "other"}
    /\ hasTasks \in BOOLEAN
    /\ LibIdle

\* the orchestrator thread runs start() only while no handler frame is active
Running(p) == pc = p /\ hstack = <<>>


\* ------------------------------------------------------ the job supervisor
\* launchd.Job.returncode(): the exit code, or None while the job runs.
\* A return code is <<c>>; Python's None is NoCode.
returncode == IF childState = "exited" THEN exitCode ELSE NoCode

\* launchd.Job.stop(): asks the job to stop and returns without waiting
JobStop == stopSent' = TRUE

\* Python truth value of a return code (None and 0 are false)
Truthy(rc) == rc # NoCode /\ rc[1] # 0

\* start() raises StartOSInstallError; startosinstall() catches it, logs
\* the failure and returns False (osinstaller.py:328-333)
ReturnFalse == pc' = "done" /\ result' = "Failure"

\* start() returns normally; startosinstall() returns True (line 327)
ReturnTrue == pc' = "done" /\ result' = "Success"

\* an exception other than StartOSInstallError leaves start() and
\* startosinstall(), which does not catch it
Propagate == pc' = "done" /\ result' = "Raised"

\* dmgutils.unmountdmg(self.dmg_mountpoint)
unmountdmg == unmounts' = unmounts + 1

\* ---------------------------------------------------------------- start()
\* mutant of InstallHandler: the handler is never registered
InstallHandler_skip ==
    /\ Running("start")
    /\ pc' = "get_app_path"
    /\ UNCHANGED <<result, sessionVars, libVars, mountVars, handlerInstalled,
                   handlerVars, childVars, stopSent, loopVars, retcode,
                   stop_flag>>

\* osinstaller.py:146  signal.signal(signal.SIGUSR1, self.sigusr1_handler)
InstallHandler ==
    /\ Running("start")
    /\ handlerInstalled' = TRUE
    /\ pc' = "get_app_path"
    /\ UNCHANGED <<result, sessionVars, libVars, mountVars, handlerVars, childVars,
                   stopSent, loopVars, retcode, stop_flag>>

\* osinstaller.py:110-136 (called at line 149)
GetAppPath ==
    /\ Running("get_app_path")
    /\ \/ /\ installer = "app"
          /\ pc' = "launch"
          /\ UNCHANGED <<result, mountVars>>
       \/ /\ installer = "dmg"
          /\ \E mounted \in BOOLEAN, found \in BOOLEAN :
                IF ~mounted
                THEN \* mountdmg gave no mount points
                     /\ ReturnFalse
                     /\ UNCHANGED mountVars
                ELSE IF found
                THEN \* leave dmg mounted
                     /\ dmg_mountpoint' = MountPoint
                     /\ didMount' = TRUE
                     /\ pc' = "launch"
                     /\ UNCHANGED <<result, unmounts>>
                ELSE /\ unmountdmg
                     /\ dmg_mountpoint' = None
                     /\ didMount' = TRUE
                     /\ ReturnFalse
       \/ /\ installer = "other"
          /\ ReturnFalse
          /\ UNCHANGED mountVars
    /\ UNCHANGED <<sessionVars, libVars, handlerInstalled, handlerVars, childVars,
                   stopSent, loopVars, retcode, stop_flag>>

\* osinstaller.py:198-209  job.start(), then the loop's locals
Launch ==
    /\ Running("launch")
    /\ \E started \in BOOLEAN :
          IF started
          THEN /\ childState' = "running"
               /\ startosinstall_output' = <<>>
               /\ inactive' = 0
               /\ pc' = "stop_check"
               /\ UNCHANGED result
          ELSE \* LaunchdJobException -> StartOSInstallError (line 205)
               /\ ReturnFalse
               /\ UNCHANGED <<childState, startosinstall_output, inactive>>
    /\ UNCHANGED <<sessionVars, libVars, mountVars, handlerInstalled, handlerVars,
                   exitCode, stdoutBuf, written, stderrBuf, handshakes,
                   stopSent, info_output, percent, shown, emptyReads,
                   stalled, retcode, stop_flag>>

\* mutant of StopCheck: the job is stopped but the loop goes on reading
StopCheck_nobreak ==
    /\ Running("stop_check")
    /\ IF stop_flag THEN JobStop ELSE UNCHANGED stopSent
    /\ pc' = "readline"
    /\ UNCHANGED <<result, sessionVars, libVars, mountVars, handlerInstalled,
                   handlerVars, childVars, loopVars, retcode, stop_flag>>

\* osinstaller.py:211-213
StopCheck ==
    /\ Running("stop_check")
    /\ IF stop_flag
       THEN /\ JobStop
            /\ pc' = "percent100"
       ELSE /\ pc' = "readline"
            /\ UNCHANGED stopSent
    /\ UNCHANGED <<result, sessionVars, libVars, mountVars, handlerInstalled,
                   handlerVars, childVars, loopVars, retcode, stop_flag>>

\* osinstaller.py:215-216  info_output = job.stdout.readline()
ReadLine ==
    /\ Running("readline")
    /\ IF stdoutBuf # <<>>
       THEN /\ info_output' = Head(stdoutBuf)
            /\ stdoutBuf' = Tail(stdoutBuf)
            /\ emptyReads' = 0
            /\ pc' = "process"
       ELSE /\ info_output' = <<>>
            /\ emptyReads' = emptyReads + 1
            /\ pc' = "returncode"
            /\ UNCHANGED stdoutBuf
    /\ UNCHANGED <<result, sessionVars, libVars, mountVars, handlerInstalled,
                   handlerVars, childState, exitCode, written, stderrBuf,
                   handshakes, stopSent, startosinstall_output, inactive,
                   percent, shown, stalled, retcode, stop_flag>>

\* osinstaller.py:217-218  if job.returncode() is not None: break
CheckReturncode ==
    /\ Running("returncode")
    /\ pc' = IF returncode # NoCode THEN "percent100" ELSE "no_output"
    /\ UNCHANGED <<result, sessionVars, libVars, mountVars, handlerInstalled,
                   handlerVars, childVars, stopSent, loopVars, retcode,
                   stop_flag>>

\* mutant of NoOutput: the counter is kept but never compared with timeout
NoOutput_nolimit ==
    /\ Running("no_output")
    /\ inactive' = inactive + 1
    /\ pc' = "stop_check"
    /\ UNCHANGED <<result, sessionVars, libVars, mountVars, handlerInstalled,
                   handlerVars, childVars, stopSent, stalled,
                   startosinstall_output, info_output, percent, shown,
                   emptyReads, retcode, stop_flag>>

\* osinstaller.py:221-231  no data, but we're still running
NoOutput ==
    /\ Running("no_output")
    /\ inactive' = inactive + 1
    /\ IF inactive' >= timeout
       THEN /\ JobStop
            /\ stalled' = TRUE
            /\ pc' = "percent100"
       ELSE /\ pc' = "stop_check"
            /\ UNCHANGED <<stopSent, stalled>>
    /\ UNCHANGED <<result, sessionVars, libVars, mountVars, handlerInstalled,
                   handlerVars, childVars, startosinstall_output, info_output,
                   percent, shown, emptyReads, retcode, stop_flag>>

\* mutant of ProcessLine: the inactivity counter is not reset
ProcessLine_noreset ==
    /\ Running("process")
    /\ UNCHANGED inactive
    /\ IF decode_raises(info_output)
       THEN /\ Propagate
            /\ UNCHANGED <<startosinstall_output, percent, shown>>
       ELSE LET c == Classify(info_output)
            IN  /\ startosinstall_output' =
                       Append(startosinstall_output, info_output)
                /\ IF c.call = "raise"
                   THEN /\ Propagate
                        /\ UNCHANGED <<percent, shown>>
                   ELSE /\ shown' = c.call
                        /\ percent' = IF c.call = "display_percent_done"
                                      THEN c.percent ELSE percent
                        /\ pc' = "stop_check"
                        /\ UNCHANGED result
    /\ UNCHANGED <<sessionVars, libVars, mountVars, handlerInstalled, handlerVars,
                   childVars, stopSent, info_output, emptyReads,
                   stalled, retcode, stop_flag>>

\* osinstaller.py:234-263  a non-empty line was read
ProcessLine ==
    /\ Running("process")
    /\ inactive' = 0
    /\ IF decode_raises(info_output)
       THEN \* UnicodeDecodeError at line 236
            /\ Propagate
            /\ UNCHANGED <<startosinstall_output, percent, shown>>
       ELSE LET c == Classify(info_output)
            IN  /\ startosinstall_output' =
                       Append(startosinstall_output, info_output)
                /\ IF c.call = "raise"
                   THEN \* OverflowError at line 248
                        /\ Propagate
                        /\ UNCHANGED <<percent, shown>>
                   ELSE /\ shown' = c.call
                        /\ percent' = IF c.call = "display_percent_done"
                                      THEN c.percent ELSE percent
                        /\ pc' = "stop_check"
                        /\ UNCHANGED result
    /\ UNCHANGED <<sessionVars, libVars, mountVars, handlerInstalled, handlerVars,
                   childVars, stopSent, info_output, emptyReads,
                   stalled, retcode, stop_flag>>

\* mutant of Percent100: the display is not forced to 100
Percent100_skip ==
    /\ Running("percent100")
    /\ pc' = "get_retcode"
    /\ UNCHANGED <<result, sessionVars, libVars, mountVars, handlerInstalled,
                   handlerVars, childVars, stopSent, loopVars, retcode,
                   stop_flag>>

\* osinstaller.py:266  munkistatus.percent(100)
Percent100 ==
    /\ Running("percent100")
    /\ percent' = 100
    /\ pc' = "get_retcode"
    /\ UNCHANGED <<result, sessionVars, libVars, mountVars, handlerInstalled,
                   handlerVars, childVars, stopSent, startosinstall_output,
                   inactive, info_output, shown, emptyReads, stalled,
                   retcode, stop_flag>>

\* osinstaller.py:267  retcode = job.returncode()
GetRetcode ==
    /\ Running("get_retcode")
    /\ retcode' = returncode
    /\ pc' = "check_retcode"
    /\ UNCHANGED <<result, sessionVars, libVars, mountVars, handlerInstalled,
                   handlerVars, childVars, stopSent, loopVars, stop_flag>>

\* osinstaller.py:268-281  if retcode: unmount, dump the output, raise
CheckRetcode ==
    /\ Running("check_retcode")
    /\ IF Truthy(retcode)
       THEN /\ IF dmg_mountpoint # None
               THEN unmountdmg ELSE UNCHANGED unmounts
            /\ startosinstall_output' = startosinstall_output \o stderrBuf
            /\ ReturnFalse
       ELSE /\ pc' = "check_signal"
            /\ UNCHANGED <<result, unmounts, startosinstall_output>>
    /\ UNCHANGED <<sessionVars, libVars, dmg_mountpoint, didMount, handlerInstalled,
                   handlerVars, childVars, stopSent, inactive, info_output,
                   percent, shown, emptyReads, stalled, retcode,
                   stop_flag>>

\* mutant of CheckSignal: the disk image is unmounted on both branches
CheckSignal_unmount ==
    /\ Running("check_signal")
    /\ IF dmg_mountpoint # None THEN unmountdmg ELSE UNCHANGED unmounts
    /\ IF got_sigusr1 THEN ReturnTrue ELSE ReturnFalse
    /\ UNCHANGED <<sessionVars, libVars, dmg_mountpoint, didMount, handlerInstalled,
                   handlerVars, childVars, stopSent, loopVars, retcode,
                   stop_flag>>

\* osinstaller.py:282-294  if self.got_sigusr1: success, else unmount, raise
CheckSignal ==
    /\ Running("check_signal")
    /\ IF got_sigusr1
       THEN /\ ReturnTrue
            /\ UNCHANGED unmounts
       ELSE /\ IF dmg_mountpoint # None
               THEN unmountdmg ELSE UNCHANGED unmounts
            /\ ReturnFalse
    /\ UNCHANGED <<sessionVars, libVars, dmg_mountpoint, didMount, handlerInstalled,
                   handlerVars, childVars, stopSent, loopVars, retcode,
                   stop_flag>>


\* ------------------------------------------------------- sigusr1_handler()
\* mutant of HandlerOrder: the reply is sent before the marker is written
HandlerOrder_replyFirst == <<"flag", "tasks", "reply", "marker">>

\* osinstaller.py:89-108: the statements of the handler, in program order:
\* "flag" is line 93, "tasks" lines 95-96, "marker" lines 98-103 and
\* "reply" line 108
HandlerOrder == <<"flag", "tasks", "marker", "reply">>

\* the statement the innermost handler frame runs next
NextStmt == HandlerOrder[Len(Head(hstack)) + 1]

HandlerAt(stmt) == hstack # <<>> /\ NextStmt = stmt

\* the innermost frame has run stmt; it returns after its last statement
Advance(stmt) ==
    hstack' = IF Len(Head(hstack)) + 1 = Len(HandlerOrder)
              THEN Tail(hstack)
              ELSE <<Append(Head(hstack), stmt)>> \o Tail(hstack)

\* Python calls the handler of a pending signal between two bytecodes of
\* the main thread, also while another handler frame is running
Deliver ==
    /\ sigPending
    /\ handlerInstalled
    /\ pc # "done"
    /\ sigPending' = FALSE
    /\ hstack' = <<<<>>>> \o hstack
    /\ UNCHANGED <<pc, result, sessionVars, libVars, mountVars, handlerInstalled,
                   got_sigusr1, tasksRun, markerAttempts, marker, replies,
                   childVars, stopSent, loopVars, retcode, stop_flag>>

\* mutant of HandlerFlag: the handler also clears the inactivity counter
HandlerFlag_reset ==
    /\ HandlerAt("flag")
    /\ got_sigusr1' = TRUE
    /\ inactive' = 0
    /\ Advance("flag")
    /\ UNCHANGED <<pc, result, sessionVars, libVars, mountVars, handlerInstalled,
                   sigPending, tasksRun, markerAttempts, marker, replies,
                   childVars, stopSent, startosinstall_output, info_output,
                   percent, shown, emptyReads, stalled, retcode, stop_flag>>

\* osinstaller.py:92-93  self.got_sigusr1 = True
HandlerFlag ==
    /\ HandlerAt("flag")
    /\ got_sigusr1' = TRUE
    /\ Advance("flag")
    /\ UNCHANGED <<pc, result, sessionVars, libVars, mountVars, handlerInstalled,
                   sigPending, tasksRun, markerAttempts, marker, replies,
                   childVars, stopSent, loopVars, retcode, stop_flag>>

\* osinstaller.py:95-96  if self.finishing_tasks: self.finishing_tasks()
HandlerTasks ==
    /\ HandlerAt("tasks")
    /\ tasksRun' = IF hasTasks THEN tasksRun + 1 ELSE tasksRun
    /\ Advance("tasks")
    /\ UNCHANGED <<pc, result, sessionVars, libVars, mountVars, handlerInstalled,
                   got_sigusr1, sigPending, markerAttempts, marker, replies,
                   childVars, stopSent, loopVars, retcode, stop_flag>>

\* osinstaller.py:98-103  open(CHECKANDINSTALLATSTARTUPFLAG, 'w').close();
\* an OSError or IOError is displayed and the handler goes on
HandlerMarker ==
    /\ HandlerAt("marker")
    /\ markerAttempts' = markerAttempts + 1
    /\ \E ok \in BOOLEAN : marker' = (marker \/ ok)
    /\ Advance("marker")
    /\ UNCHANGED <<pc, result, sessionVars, libVars, mountVars, handlerInstalled,
                   got_sigusr1, sigPending, tasksRun, replies, childVars,
                   stopSent, loopVars, retcode, stop_flag>>

\* osinstaller.py:108  killall -SIGUSR1 startosinstall
HandlerReply ==
    /\ HandlerAt("reply")
    /\ replies' = replies + 1
    /\ Advance("reply")
    /\ UNCHANGED <<pc, result, sessionVars, libVars, mountVars, handlerInstalled,
                   got_sigusr1, sigPending, tasksRun, markerAttempts, marker,
                   childVars, stopSent, loopVars, retcode, stop_flag>>

\* ------------------------------------------------- the child (startosinstall)
L_Stderr == <<"e","r","r">>

\* the child writes one line to its standard output
ChildWrite ==
    /\ childState = "running"
    /\ Len(written) < MaxLines
    /\ \E l \in Lines :
          /\ stdoutBuf' = Append(stdoutBuf, l)
          /\ written' = Append(written, l)
    /\ UNCHANGED <<pc, result, sessionVars, libVars, mountVars, handlerInstalled,
                   handlerVars, childState, exitCode, stderrBuf, handshakes,
                   stopSent, loopVars, retcode, stop_flag>>

\* the child signals --pidtosignal with SIGUSR1 (pending signals coalesce)
ChildSignal ==
    /\ childState = "running"
    /\ handshakes < MaxHandshakes
    /\ handshakes' = handshakes + 1
    /\ sigPending' = TRUE
    /\ UNCHANGED <<pc, result, sessionVars, libVars, mountVars, handlerInstalled,
                   got_sigusr1, hstack, tasksRun, markerAttempts, marker,
                   replies, childState, exitCode, stdoutBuf, written,
                   stderrBuf, stopSent, loopVars, retcode, stop_flag>>

\* the child exits, of its own accord or after a stop request
ChildExit ==
    /\ childState = "running"
    /\ \E c \in ExitCodes :
          /\ exitCode' = <<c>>
          /\ stderrBuf' = IF c # 0 THEN <<L_Stderr>> ELSE <<>>
    /\ childState' = "exited"
    /\ UNCHANGED <<pc, result, sessionVars, libVars, mountVars, handlerInstalled,
                   handlerVars, stdoutBuf, written, handshakes, stopSent,
                   loopVars, retcode, stop_flag>>

\* ------------------------------------------------------------ cancellation
\* someone asks munki to stop: processes.stop_requested() turns True
RequestStop ==
    /\ ~stop_flag
    /\ pc # "done"
    /\ stop_flag' = TRUE
    /\ UNCHANGED <<pc, result, sessionVars, libVars, mountVars, handlerInstalled,
                   handlerVars, childVars, stopSent, loopVars, retcode>>

\* ----------------------------------------------------------- specification
Next ==
    \/ InstallHandler
    \/ GetAppPath
    \/ Launch
    \/ StopCheck
    \/ ReadLine
    \/ CheckReturncode
    \/ NoOutput
    \/ ProcessLine
    \/ Percent100
    \/ GetRetcode
    \/ CheckRetcode
    \/ CheckSignal
    \/ Deliver
    \/ HandlerFlag
    \/ HandlerTasks
    \/ HandlerMarker
    \/ HandlerReply
    \/ ChildWrite
    \/ ChildSignal
    \/ ChildExit
    \/ RequestStop

Spec == Init /\ [][Next]_vars

TypeOK ==
    /\ pc \in {"start", "get_app_path", "launch", "stop_check", "readline",
               "returncode", "no_output", "process", "percent100",
               "get_retcode", "check_retcode", "check_signal", "done"}
    /\ result \in {None, "Success", "Failure", "Raised"}
    /\ dmg_mountpoint \in {None, MountPoint}
    /\ childState \in {"notstarted", "running", "exited"}
    /\ inactive \in 0..timeout
    /\ retcode \in {<<c>> : c \in ExitCodes} \cup {NoCode}


\* ------------------------------------------------------------------ claims
Returned == pc = "done"
ChildStarted == childState # "notstarted"
AfterLoop == pc \in {"percent100", "get_retcode", "check_retcode",
                     "check_signal"}

IsPrefix(s, t) == Len(s) <= Len(t) /\ SubSeq(t, 1, Len(s)) = s

\* C1: an attempt ends in Success if and only if the child's exit code is
\* zero and the handshake signal was received; every other combination
\* ends in Failure.
C1_Claim ==
    (Returned /\ result \in {"Success", "Failure"})
    => (result = "Success" <=> (retcode = <<0>> /\ got_sigusr1))

\* C2: every attempt that mounted a disk image and ends in Failure has
\* called unmount on the mount point exactly once when it returns.
C2_Claim ==
    (Returned /\ result = "Failure" /\ didMount) => unmounts = 1

\* C3: on the Success path of an attempt that mounted a disk image unmount
\* is never called and the mount point is still recorded as mounted.
C3_Thm ==
    (Returned /\ result = "Success" /\ didMount)
    => (unmounts = 0 /\ dmg_mountpoint = MountPoint)

C3_Witness ==
    Returned /\ result = "Success" /\ didMount /\ unmounts = 0

\* C4: once the stall ceiling is reached the child has been stopped, the
\* streaming loop has been left and the attempt never ends in Success.
C4_Claim ==
    stalled => /\ stopSent
               /\ (AfterLoop \/ Returned)
               /\ result # "Success"

\* C5: the inactivity counter never exceeds the ceiling, changes only by a
\* reset to zero for a line that was read or by +1 for an empty read that
\* found the child still running, and at the head of every loop iteration
\* equals the number of consecutive empty reads since the last line.
C5_Thm ==
    /\ [](/\ inactive \in 0..timeout
          /\ (pc = "stop_check" => inactive = emptyReads))
    /\ [][inactive' # inactive =>
            \/ pc = "process" /\ inactive' = 0
            \/ /\ pc = "no_output" /\ info_output = <<>>
               /\ inactive' = inactive + 1]_vars

C5_Witness ==
    /\ pc = "stop_check"
    /\ Len(startosinstall_output) = 1
    /\ inactive = 1
    /\ emptyReads = 1

\* C6: a loop iteration that begins with cancellation requested stops the
\* child and leaves the loop at once: no read, no append to the captured
\* output, no status-display update and no inactivity handling happen.
C6_Thm ==
    [][(pc = "stop_check" /\ stop_flag /\ pc' # pc) =>
          /\ pc' = "percent100"
          /\ stopSent'
          /\ UNCHANGED <<stdoutBuf, info_output,
                         startosinstall_output, percent, shown, inactive,
                         emptyReads, stalled>>]_vars

C6_Witness ==
    pc = "percent100" /\ stop_flag /\ stopSent /\ ~stalled /\ startosinstall_output # <<>>

\* C7: the child never runs while the handshake-signal handler is not
\* installed.
C7_Thm == ChildStarted => handlerInstalled

C7_Witness == childState = "running" /\ handlerInstalled /\ sigPending

\* C8: every handler invocation sets got_sigusr1, then runs the finishing
\* tasks, then attempts the marker file, then sends the reply; no reply is
\* sent before the callback returned and the marker write was attempted.
C8_Thm ==
    /\ \A i \in 1..Len(hstack) :
          /\ IsPrefix(hstack[i], <<"flag", "tasks", "marker">>)
          /\ (hstack[i] # <<>> => got_sigusr1)
    /\ replies <= markerAttempts
    /\ (hasTasks => markerAttempts <= tasksRun)
    /\ (replies > 0 => got_sigusr1)

C8_Witness ==
    hasTasks /\ replies = 1 /\ tasksRun = 1 /\ markerAttempts = 1

\* C9: whenever the orchestrator returns from an attempt in which the
\* child was started, the child has exited or has been sent a stop request.
C9_Claim ==
    (Returned /\ ChildStarted) => (childState = "exited" \/ stopSent)

\* C10: once the streaming loop has ended by child exit, cancellation or
\* stall timeout, the status display shows 100 percent from before the
\* outcome is decided until the attempt returns, on Success and Failure.
C10_Thm ==
    (\/ pc \in {"get_retcode", "check_retcode", "check_signal"}
     \/ Returned /\ ChildStarted /\ result \in {"Success", "Failure"})
    => percent = 100

C10_Witness ==
    /\ Returned /\ result = "Failure" /\ stop_flag /\ stopSent
    /\ Len(startosinstall_output) > 0
    /\ percent = 100


\* ============================================================ pure functions
\* Each function below is checked under a specification of its own: Init
\* draws the arguments of one call from a bounded set and one action makes
\* the call.  The orchestrator does not run in these specifications.
mainVars == <<pc, result, sessionVars, mountVars, handlerInstalled,
              handlerVars, childVars, stopSent, loopVars, retcode, stop_flag>>
logoutVars == <<flpc, users, todo, logoutMarker, killed>>

Quiet ==
    /\ RunnerInit
    /\ installer = "app"
    /\ hasTasks = FALSE

LogoutIdle ==
    /\ flpc = "idle"
    /\ users = {}
    /\ todo = {}
    /\ logoutMarker = FALSE
    /\ killed = <<>>

\* all sequences over S of length at most n
SeqsUpTo(S, n) == UNION {[1..k -> S] : k \in 0..n}

Calling(f) == call # <<>> /\ call[1] = f /\ ret = <<>>
Returned_(f) == call # <<>> /\ call[1] = f /\ ret # <<>>

\* --------------------------------------------- output classification
\* characters after the prefix of an output line
MaxTail == 3
TailChars == {"4", "2", ".", " ", "x"}
S_inf == <<"i","n","f">>
S_nan == <<"n","a","n">>
LinePrefixes == {S_PreparingTo, S_Preparing, S_ByUsing, S_WaitingToReboot,
                 <<"p","r","e","p","a","r","i","n","g"," ">>, <<"O","K"," ">>}
LineTails == SeqsUpTo(TailChars, MaxTail)
                \cup {S_inf, S_nan, <<"4","2",".","0",".">>}
ClassifyLines == {p \o t \o <<"\n">> : p \in LinePrefixes, t \in LineTails}

ClassifyInit ==
    /\ Quiet
    /\ LogoutIdle
    /\ \E l \in ClassifyLines : call = <<"classify", l>>
    /\ ret = <<>>

\* osinstaller.py:241-263 applied to the line read
ClassifyCall ==
    /\ Calling("classify")
    /\ ret' = <<Classify(call[2])>>
    /\ UNCHANGED <<mainVars, logoutVars, call>>

ClassifyNext == ClassifyCall

SpecClassify == ClassifyInit /\ [][ClassifyNext]_vars

\* the message the classification looks at
Msg == rstrip(call[2], {"\n"})

\* C11 (as claimed): classification is first-match-wins and a line starting
\* with "Preparing to " is forwarded as a major status.
C11_Claim ==
    (Returned_("classify") /\ startswith(Msg, S_PreparingTo))
    => ret[1].call = "display_status_major"

\* C11 (amended): classification is first-match-wins and a line starting
\* with "Preparing to " is forwarded as a minor status, never as a percent
\* or a major status.
C11_Thm ==
    (Returned_("classify") /\ startswith(Msg, S_PreparingTo))
    => ret[1] = [call |-> "display_status_minor"]

C11_Witness ==
    /\ Returned_("classify")
    /\ Msg = S_PreparingTo \o <<"4", "2">>
    /\ ret[1].call = "display_status_minor"

\* C12: a line starting with "Preparing " and not with "Preparing to "
\* gives a percent update, with the sentinel -1 when the text does not
\* parse, and never raises out of the loop.
C12_Claim ==
    (/\ Returned_("classify")
     /\ startswith(Msg, S_Preparing)
     /\ ~startswith(Msg, S_PreparingTo))
    => /\ ret[1].call = "display_percent_done"
       /\ (Msg = S_Preparing \o <<"4","2",".","0",".">>
             => ret[1].percent = 42)


\* ------------------------------------- munkicommon/processes.py: matching
S_slash == <<"/">>
S_dotapp == <<".","a","p","p">>
S_ContentsMacOS ==
    <<"/","C","o","n","t","e","n","t","s","/","M","a","c","O","S",
      "/">>
\* processes.py:47-48
LaunchCFMApp ==
    <<"/","S","y","s","t","e","m","/","L","i","b","r","a","r","y","/",
      "F","r","a","m","e","w","o","r","k","s","/","C","a","r","b","o",
      "n",".","f","r","a","m","e","w","o","r","k","/","V","e","r","s",
      "i","o","n","s","/","A","/","S","u","p","p","o","r","t","/","L",
      "a","u","n","c","h","C","F","M","A","p","p">>

\* str.endswith(suffix)
endswith(s, suf) ==
    /\ Len(s) >= Len(suf)
    /\ SubSeq(s, Len(s) - Len(suf) + 1, Len(s)) = suf

\* sub in s
contains(s, sub) ==
    \E i \in 1..(Len(s) - Len(sub) + 1) : SubSeq(s, i, i + Len(sub) - 1) = sub

\* x in list
InList(x, list) == \E i \in 1..Len(list) : list[i] = x

\* [f(item) for item in list], for f = item[n:]
RECURSIVE DropEach(_, _)
DropEach(list, n) ==
    IF list = <<>> THEN <<>>
    ELSE <<SubSeq(Head(list), n + 1, Len(Head(list)))>>
            \o DropEach(Tail(list), n)

\* processes.py:37-64  ps is the outcome of the two /bin/ps runs:
\* [rc, comm, rc2, args] with comm and args the output lines
getRunningProcesses(ps) ==
    IF ps.rc = 0
    THEN LET IsPath(item) == startswith(item, S_slash)
             IsCFM(item) == startswith(item, LaunchCFMApp)
             proc_list == SelectSeq(ps.comm, IsPath)
             carbon_apps == DropEach(SelectSeq(ps.args, IsCFM),
                                     Len(LaunchCFMApp) + 1)
         IN  IF InList(LaunchCFMApp, proc_list) /\ ps.rc2 = 0
             THEN proc_list \o carbon_apps
             ELSE proc_list
    ELSE <<>>

\* mutant of isAppRunning: the retry with '.app' appended is left out
isAppRunning_noRetry(appname, ps) ==
    LET proc_list == getRunningProcesses(ps)
        Exact(item) == item = appname
        Bundle(item) ==
            contains(item, S_slash \o appname \o S_ContentsMacOS)
        Exe(item) == endswith(item, S_slash \o appname)
        matching_items ==
            IF startswith(appname, S_slash)
            THEN SelectSeq(proc_list, Exact)
            ELSE IF endswith(appname, S_dotapp)
            THEN SelectSeq(proc_list, Bundle)
            ELSE SelectSeq(proc_list, Exe)
    IN  matching_items # <<>>

\* processes.py:67-97
isAppRunning(appname, ps) ==
    LET proc_list == getRunningProcesses(ps)
        Exact(item) == item = appname
        Bundle(item) ==
            contains(item, S_slash \o appname \o S_ContentsMacOS)
        Exe(item) == endswith(item, S_slash \o appname)
        WithApp(item) ==
            contains(item, S_slash \o appname \o S_dotapp \o S_ContentsMacOS)
        matching_items ==
            IF startswith(appname, S_slash)
            THEN SelectSeq(proc_list, Exact)
            ELSE IF endswith(appname, S_dotapp)
            THEN SelectSeq(proc_list, Bundle)
            ELSE SelectSeq(proc_list, Exe)
        retried ==
            IF matching_items = <<>>
            THEN SelectSeq(proc_list, WithApp)
            ELSE matching_items
    IN  retried # <<>>

\* process tables and names the calls are made with
MaxProcs == 2
N_Foo == <<"F","o","o">>
N_oo == <<"o","o">>
P_Foo ==
    <<"/","A","/","F","o","o">>
P_FooBundle ==
    <<"/","A","/","F","o","o",".","a","p","p","/","C","o","n","t","e",
      "n","t","s","/","M","a","c","O","S","/","F","o","o">>
P_FooSlashes ==
    <<"/","/","A","/","F","o","o",".","a","p","p","/","C","o","n","t",
      "e","n","t","s","/","M","a","c","O","S","/","F","o","o">>
P_FooAppApp ==
    <<"/","B","/","F","o","o",".","a","p","p",".","a","p","p","/","C",
      "o","n","t","e","n","t","s","/","M","a","c","O","S","/","F","o",
      "o">>
P_FooUnder ==
    <<"/","x","/","A","/","F","o","o">>
P_FooLonger ==
    <<"/","A","/","F","o","o","b","a","r">>
P_FooHelper ==
    <<"/","A","/","F","o","o",".","a","p","p","/","C","o","n","t","e",
      "n","t","s","/","M","a","c","O","S","/","H">>
P_bash == <<"-","b","a","s","h">>
CommPool == {P_Foo, P_FooBundle, P_FooSlashes, P_FooAppApp, P_FooUnder,
             P_FooLonger, P_FooHelper, P_bash, LaunchCFMApp}
\* the args= listing shows one old Carbon application
CarbonArgs == <<LaunchCFMApp \o <<" ">> \o P_Foo>>
PsOutcomes ==
    {[rc |-> r, comm |-> c, rc2 |-> r2, args |-> CarbonArgs] :
        r \in {0, 1}, c \in SeqsUpTo(CommPool, MaxProcs), r2 \in {0, 1}}
AppNames == {P_Foo, N_Foo, N_Foo \o S_dotapp, N_oo, N_oo \o S_dotapp}

MatchInit ==
    /\ Quiet
    /\ LogoutIdle
    /\ \E a \in AppNames, ps \in PsOutcomes : call = <<"isAppRunning", a, ps>>
    /\ ret = <<>>

IsAppRunningCall ==
    /\ Calling("isAppRunning")
    /\ ret' = <<isAppRunning(call[2], call[3])>>
    /\ UNCHANGED <<mainVars, logoutVars, call>>

MatchNext == IsAppRunningCall

SpecMatch == MatchInit /\ [][MatchNext]_vars

\* the running executable paths the call saw
ProcList == getRunningProcesses(call[3])
SomePath(Test(_)) == \E i \in 1..Len(ProcList) : Test(ProcList[i])

\* C13: for an absolute path isAppRunning is true only if some running
\* executable path equals the name exactly.
C13_Claim ==
    (Returned_("isAppRunning") /\ startswith(call[2], S_slash) /\ ret[1])
    => InList(call[2], ProcList)

\* C14 (as claimed): for a bundle name Foo.app, isAppRunning is true when
\* some running path contains "/Foo.app/Contents/MacOS/", and the names
\* "Foo" and "Foo.app" give the same result on the same process table.
C14_Claim ==
    (Returned_("isAppRunning") /\ endswith(call[2], S_dotapp))
    => LET app == call[2]
           base == SubSeq(app, 1, Len(app) - 4)
           InBundle(item) ==
               contains(item, S_slash \o app \o S_ContentsMacOS)
       IN  /\ (SomePath(InBundle) => ret[1])
           /\ ret[1] = isAppRunning(base, call[3])

\* C14 (amended): ... and the names "Foo" and "Foo.app" give the same
\* result on every process table in which no running path ends with "/Foo"
\* and none contains "/Foo.app.app/Contents/MacOS/".
C14_Thm ==
    (Returned_("isAppRunning") /\ endswith(call[2], S_dotapp))
    => LET app == call[2]
           base == SubSeq(app, 1, Len(app) - 4)
           InBundle(item) ==
               contains(item, S_slash \o app \o S_ContentsMacOS)
           IsExe(item) == endswith(item, S_slash \o base)
           InAppApp(item) ==
               contains(item, S_slash \o app \o S_dotapp \o S_ContentsMacOS)
       IN  /\ (SomePath(InBundle) => ret[1])
           /\ (~SomePath(IsExe) /\ ~SomePath(InAppApp)
                 => ret[1] = isAppRunning(base, call[3]))

\* the only running path is a helper inside Foo.app: "Foo.app" matches it
\* directly and "Foo" through the retry
C14_Witness ==
    /\ Returned_("isAppRunning")
    /\ call[2] = N_Foo \o S_dotapp
    /\ ProcList = <<P_FooHelper>>
    /\ ret[1]
    /\ isAppRunning(N_Foo, call[3])


\* --------------------------- munkicommon/processes.py: blocking applications
\* A dict is a function on its keys.  A descriptor always has a 'name'
\* (munki requires it of every pkginfo); 'blocking_applications' and
\* 'installs' are optional, and so are the keys of an installs item.
NoKeys == [k \in {} |-> k]
HasKey(dict, k) == k \in DOMAIN dict

\* os.path.basename(p): what follows the last "/"
RECURSIVE basename(_)
basename(path) ==
    IF path = <<>> \/ path[Len(path)] = "/" THEN <<>>
    ELSE basename(SubSeq(path, 1, Len(path) - 1)) \o <<path[Len(path)]>>

\* processes.py:110-112  the list comprehension over 'installs':
\* [raised |-> TRUE] when an item has no 'type' (KeyError) or an
\* application item has no 'path' (basename(None))
RECURSIVE InstallNames(_)
InstallNames(installs) ==
    IF installs = <<>> THEN [raised |-> FALSE, names |-> <<>>]
    ELSE LET item == Head(installs)
             rest == InstallNames(Tail(installs))
         IN  IF ~HasKey(item, "type")
             THEN [raised |-> TRUE, names |-> <<>>]
             ELSE IF item["type"] # "application"
             THEN rest
             ELSE IF ~HasKey(item, "path")
             THEN [raised |-> TRUE, names |-> <<>>]
             ELSE [raised |-> rest.raised,
                   names |-> <<basename(item["path"])>> \o rest.names]

\* some name of the list is running (running_apps is not empty)
AnyRunning(appnames, ps) ==
    \E i \in 1..Len(appnames) : isAppRunning(appnames[i], ps)

\* mutant of blockingApplicationsRunning: the names derived from
\* 'installs' are checked as well as the blocking_applications
blockingApplicationsRunning_both(pkginfoitem, ps) ==
    LET derived == InstallNames(IF HasKey(pkginfoitem, "installs")
                                THEN pkginfoitem["installs"] ELSE <<>>)
        listed == IF HasKey(pkginfoitem, "blocking_applications")
                  THEN pkginfoitem["blocking_applications"] ELSE <<>>
    IN  IF derived.raised
        THEN [raised |-> TRUE, value |-> FALSE]
        ELSE [raised |-> FALSE,
              value |-> AnyRunning(listed \o derived.names, ps)]

\* processes.py:100-122  [raised, value]: an exception left the function,
\* or it returned value
blockingApplicationsRunning(pkginfoitem, ps) ==
    IF HasKey(pkginfoitem, "blocking_applications")
    THEN [raised |-> FALSE,
          value |-> AnyRunning(pkginfoitem["blocking_applications"], ps)]
    ELSE LET derived == InstallNames(IF HasKey(pkginfoitem, "installs")
                                     THEN pkginfoitem["installs"] ELSE <<>>)
         IN  IF derived.raised
             THEN [raised |-> TRUE, value |-> FALSE]
             ELSE [raised |-> FALSE, value |-> AnyRunning(derived.names, ps)]

\* descriptors and process tables the calls are made with
MaxApps == 2
P_FooApp == <<"/","A","/","F","o","o",".","a","p","p">>
InstallItems ==
    {("type" :> "application") @@ ("path" :> P_FooApp),
     ("type" :> "file") @@ ("path" :> P_Foo),
     ("type" :> "application"),
     ("path" :> P_FooApp)}
InstallsChoices ==
    {NoKeys} \cup {("installs" :> i) : i \in SeqsUpTo(InstallItems, MaxApps)}
BlockingChoices ==
    {NoKeys} \cup {("blocking_applications" :> b) :
                      b \in SeqsUpTo({N_Foo \o S_dotapp, N_oo}, MaxApps)}
Descriptors ==
    {("name" :> "pkg") @@ b @@ i : b \in BlockingChoices,
                                   i \in InstallsChoices}
BlockingPs ==
    {[rc |-> 0, comm |-> c, rc2 |-> 0, args |-> <<>>] :
        c \in SeqsUpTo({P_FooBundle, P_FooUnder, P_bash}, MaxProcs)}

\* the descriptor with its installs list replaced or removed
WithInstalls(pkginfoitem, i) ==
    LET kept == DOMAIN pkginfoitem \ {"installs"}
    IN  [k \in kept |-> pkginfoitem[k]] @@ i

BlockingInit ==
    /\ Quiet
    /\ LogoutIdle
    /\ \E item \in Descriptors, ps \in BlockingPs :
          call = <<"blockingApplicationsRunning", item, ps>>
    /\ ret = <<>>

BlockingCall ==
    /\ Calling("blockingApplicationsRunning")
    /\ ret' = <<blockingApplicationsRunning(call[2], call[3])>>
    /\ UNCHANGED <<mainVars, logoutVars, call>>

BlockingNext == BlockingCall

SpecBlocking == BlockingInit /\ [][BlockingNext]_vars

\* C15: for a descriptor that has a blocking-applications list, even an
\* empty one, the result is the same whatever the installs list is, and
\* whether it is there at all.
C15_Thm ==
    (/\ Returned_("blockingApplicationsRunning")
     /\ HasKey(call[2], "blocking_applications"))
    => \A i \in InstallsChoices :
          blockingApplicationsRunning(WithInstalls(call[2], i), call[3])
              = ret[1]

C15_Witness ==
    /\ Returned_("blockingApplicationsRunning")
    /\ HasKey(call[2], "blocking_applications")
    /\ call[2]["blocking_applications"] = <<>>
    /\ HasKey(call[2], "installs")
    /\ call[2]["installs"] =
          <<("type" :> "application") @@ ("path" :> P_FooApp)>>
    /\ call[3].comm = <<P_FooBundle>>
    /\ ret[1] = [raised |-> FALSE, value |-> FALSE]


\* ------------------------------ munkicommon/processes.py: findProcesses
\* constants.LOGINWINDOW (imported at processes.py:30)
LOGINWINDOW ==
    <<"/","S","y","s","t","e","m","/","L","i","b","r","a","r","y","/",
      "C","o","r","e","S","e","r","v","i","c","e","s","/","l","o","g",
      "i","n","w","i","n","d","o","w",".","a","p","p","/","C","o","n",
      "t","e","n","t","s","/","M","a","c","O","S","/","l","o","g","i",
      "n","w","i","n","d","o","w">>
S_root == <<"r","o","o","t">>
S_alice == <<"a","l","i","c","e">>
S_bob == <<"b","o","b">>

\* index of the first whitespace character of s, or Len(s) + 1
FirstSpace(s) ==
    IF \E i \in 1..Len(s) : s[i] \in Whitespace
    THEN CHOOSE i \in 1..Len(s) :
            s[i] \in Whitespace /\ \A j \in 1..(i - 1) : s[j] \notin Whitespace
    ELSE Len(s) + 1

\* str.split(None, maxsplit): fields separated by runs of whitespace; after
\* maxsplit splits the rest of the string is the last field
RECURSIVE split(_, _)
split(s, maxsplit) ==
    LET t == lstrip(s, Whitespace)
        n == FirstSpace(t)
    IN  IF t = <<>> THEN <<>>
        ELSE IF maxsplit = 0 THEN <<t>>
        ELSE <<SubSeq(t, 1, n - 1)>>
                \o split(SubSeq(t, n, Len(t)), maxsplit - 1)

\* int(text) does not raise ValueError
IsInt(text) ==
    LET body == IF text # <<>> /\ text[1] \in {"+", "-"}
                THEN Tail(text) ELSE text
    IN  body # <<>> /\ AllDigits(body)

\* processes.py:151-170  the loop over the lines inside the try block:
\* the first ValueError (a line without three fields, a pid that is not an
\* integer) returns the pids collected so far
RECURSIVE FindLoop(_, _, _, _)
FindLoop(lines, user, exe, pids) ==
    IF lines = <<>> THEN pids
    ELSE LET f == split(Head(lines), 2)
         IN  IF Len(f) # 3
             THEN pids
             ELSE IF exe # <<>> /\ ~startswith(f[3], exe[1])
             THEN FindLoop(Tail(lines), user, exe, pids)
             ELSE IF user # <<>> /\ f[2] # user[1]
             THEN FindLoop(Tail(lines), user, exe, pids)
             ELSE IF ~IsInt(f[1])
             THEN pids
             ELSE FindLoop(Tail(lines), user, exe,
                     (DigitsVal(f[1]) :> [user |-> f[2], exe |-> f[3]])
                         @@ pids)

\* processes.py:125-170  findProcesses(user, exe) on the outcome of ps:
\* ps = [rc, stdout] with stdout the lines of the listing.  An optional
\* argument is <<>> for None and <<value>> otherwise.
findProcesses(user, exe, ps) ==
    IF ps.stdout = <<>> \/ ps.rc # 0
    THEN NoKeys
    ELSE FindLoop(ps.stdout, user, exe, NoKeys)

\* listings the calls are made with
MaxPsLines == 3
PS_alice1 == <<" ","5","0","1"," ">> \o S_alice \o <<" ">> \o LOGINWINDOW
PS_alice2 == <<" ","5","0","2"," ">> \o S_alice \o <<" ">> \o LOGINWINDOW
PS_bob == <<" ","6","0","0"," ">> \o S_bob \o <<" ">> \o LOGINWINDOW
PS_root == <<" "," ","8","8"," ">> \o S_root \o <<" ">> \o LOGINWINDOW
PS_other == <<" "," ","7","7"," ">> \o S_bob \o <<" ">> \o P_FooBundle
PS_short == <<"5","0","3"," ">> \o S_alice
PS_badpid == <<"?"," ">> \o S_bob \o <<" ">> \o LOGINWINDOW
PsLinePool == {PS_alice1, PS_alice2, PS_bob, PS_root, PS_other, PS_short,
               PS_badpid}
PsListings ==
    {[rc |-> r, stdout |-> l] :
        r \in {0, 1}, l \in SeqsUpTo(PsLinePool, MaxPsLines)}

FindInit ==
    /\ Quiet
    /\ LogoutIdle
    /\ \E u \in {<<>>, <<S_alice>>}, e \in {<<>>, <<LOGINWINDOW>>},
          ps \in PsListings : call = <<"findProcesses", u, e, ps>>
    /\ ret = <<>>

FindProcessesCall ==
    /\ Calling("findProcesses")
    /\ ret' = <<findProcesses(call[2], call[3], call[4])>>
    /\ UNCHANGED <<mainVars, logoutVars, call>>

FindNext == FindProcessesCall

SpecFind == FindInit /\ [][FindNext]_vars

\* a listing line with three fields and an integer pid
WellFormed(line) ==
    LET f == split(line, 2) IN Len(f) = 3 /\ IsInt(f[1])

\* the line passes the user and exe filters of the call
PassesFilters(line, user, exe) ==
    LET f == split(line, 2)
    IN  /\ (exe # <<>> => startswith(f[3], exe[1]))
        /\ (user # <<>> => f[2] = user[1])

\* C18: malformed lines are discarded without aborting: every well-formed
\* line that passes the filters is in the result, before or after a
\* malformed line.
C18_Claim ==
    (Returned_("findProcesses") /\ call[4].rc = 0)
    => \A i \in 1..Len(call[4].stdout) :
          LET line == call[4].stdout[i]
          IN  (WellFormed(line) /\ PassesFilters(line, call[2], call[3]))
              => DigitsVal(split(line, 2)[1]) \in DOMAIN ret[1]


\* ------------------------------ munkicommon/processes.py: forceLogoutNow
\* processes.py:177-182  the users dict built from procs: one entry per
\* user, holding the pid of whichever of the user's processes the dict
\* iteration visited last; the entry of root is deleted
UsersDicts(procs) ==
    LET owners == {procs[p].user : p \in DOMAIN procs}
        pidsOf(u) == {p \in DOMAIN procs : procs[p].user = u}
        picks == {f \in [owners -> DOMAIN procs] :
                     \A u \in owners : f[u] \in pidsOf(u)}
    IN  {{<<u, f[u]>> : u \in owners \ {S_root}} : f \in picks}

\* the pids os.kill has been called for
Signalled == {killed[i][1] : i \in 1..Len(killed)}

LogoutInit ==
    /\ Quiet
    /\ \E ps \in PsListings : call = <<"forceLogoutNow", ps>>
    /\ ret = <<>>
    /\ flpc = "start"
    /\ users = {}
    /\ todo = {}
    /\ logoutMarker = FALSE
    /\ killed = <<>>

\* processes.py:176-182
LogoutFind ==
    /\ flpc = "start"
    /\ users' \in UsersDicts(findProcesses(<<>>, <<LOGINWINDOW>>, call[2]))
    /\ flpc' = "marker"
    /\ UNCHANGED <<mainVars, call, ret, todo, logoutMarker, killed>>

\* processes.py:184-186, 196-197  the marker file is opened for writing; a
\* failure is caught by the outer handler, which logs it and returns
LogoutMarker ==
    /\ flpc = "marker"
    /\ \E ok \in BOOLEAN :
          IF ok
          THEN /\ logoutMarker' = TRUE
               /\ todo' = users
               /\ flpc' = "kill"
               /\ UNCHANGED ret
          ELSE /\ flpc' = "done"
               /\ ret' = <<None>>
               /\ UNCHANGED <<logoutMarker, todo>>
    /\ UNCHANGED <<mainVars, call, users, killed>>

\* mutant of LogoutKill: a failed delivery leaves the loop
LogoutKill_abort ==
    /\ flpc = "kill"
    /\ \E e \in todo, delivered \in BOOLEAN :
          /\ killed' = Append(killed, <<e[2], delivered>>)
          /\ todo' = todo \ {e}
          /\ IF delivered
             THEN UNCHANGED <<flpc, ret>>
             ELSE flpc' = "done" /\ ret' = <<None>>
    /\ UNCHANGED <<mainVars, call, users, logoutMarker>>

\* processes.py:190-194  one turn of the kill loop: os.kill(pid, 9), an
\* OSError is swallowed
LogoutKill ==
    /\ flpc = "kill"
    /\ \E e \in todo, delivered \in BOOLEAN :
          /\ killed' = Append(killed, <<e[2], delivered>>)
          /\ todo' = todo \ {e}
    /\ UNCHANGED <<mainVars, call, ret, flpc, users, logoutMarker>>

\* processes.py:190, 197  the loop is exhausted and the function returns
LogoutReturn ==
    /\ flpc = "kill"
    /\ todo = {}
    /\ flpc' = "done"
    /\ ret' = <<None>>
    /\ UNCHANGED <<mainVars, call, users, todo, logoutMarker, killed>>

LogoutNext == LogoutFind \/ LogoutMarker \/ LogoutKill \/ LogoutReturn

SpecLogout == LogoutInit /\ [][LogoutNext]_vars

\* the loginwindow processes findProcesses returned for the snapshot
Snapshot == findProcesses(<<>>, <<LOGINWINDOW>>, call[2])

\* C16: the kill signal goes to every non-root loginwindow process of the
\* snapshot, every one of them when a user owns several, and to no process
\* of root.
C16_Claim ==
    (Calling("forceLogoutNow") \/ Returned_("forceLogoutNow"))
    => ((flpc = "done" /\ logoutMarker)
        => Signalled = {p \in DOMAIN Snapshot : Snapshot[p].user # S_root})

\* C17: no signal is sent unless the marker file was created first, and a
\* failed delivery does not stop the deliveries to the remaining processes:
\* on return every entry of the users dict has been signalled.
C17_Thm ==
    (Calling("forceLogoutNow") \/ Returned_("forceLogoutNow"))
    => /\ (killed # <<>> => logoutMarker)
       /\ (flpc = "marker" => killed = <<>>)
       /\ ((flpc = "done" /\ logoutMarker)
           => Signalled = {e[2] : e \in users})

\* a first delivery failed, a second one was still made, and the function
\* returned
C17_Witness ==
    /\ Returned_("forceLogoutNow")
    /\ flpc = "done"
    /\ logoutMarker
    /\ Len(killed) = 2
    /\ ~killed[1][2]
    /\ killed[2][2]


\* ------------------------------ osinstaller.py: the startosinstall command
\* pkgutils.MunkiLooseVersion(vstring) for a string of digits and dots: the
\* components between the dots as integers, empty components dropped
RECURSIVE MunkiLooseVersion(_)
MunkiLooseVersion(vstring) ==
    LET n == IF \E i \in 1..Len(vstring) : vstring[i] = "."
             THEN CHOOSE i \in 1..Len(vstring) :
                     vstring[i] = "."
                     /\ \A j \in 1..(i - 1) : vstring[j] # "."
             ELSE Len(vstring) + 1
        first == SubSeq(vstring, 1, n - 1)
        rest == SubSeq(vstring, n + 1, Len(vstring))
    IN  IF vstring = <<>> THEN <<>>
        ELSE (IF first = <<>> THEN <<>> ELSE <<DigitsVal(first)>>)
                \o MunkiLooseVersion(rest)

\* MunkiLooseVersion.__cmp__ < 0: the shorter version is padded with zeros,
\* then the component lists are compared in order
RECURSIVE LooseLess(_, _)
LooseLess(a, b) ==
    LET x == IF a = <<>> THEN 0 ELSE Head(a)
        y == IF b = <<>> THEN 0 ELSE Head(b)
    IN  IF a = <<>> /\ b = <<>> THEN FALSE
        ELSE IF x # y THEN x < y
        ELSE LooseLess(IF a = <<>> THEN a ELSE Tail(a),
                       IF b = <<>> THEN b ELSE Tail(b))

S_10_12_4 == <<"1","0",".","1","2",".","4">>

\* osinstaller.py:60-72  get_os_version on the outcome of reading
\* InstallInfo.plist: '' when the file is missing or cannot be read
get_os_version(plist) ==
    IF ~plist.isfile THEN <<>>
    ELSE IF ~plist.readable THEN <<>>
    ELSE plist.version

\* osinstaller.py:174-179  the wrapper the command starts with
Wrapper(ptyexec) ==
    IF ptyexec # "none"
    THEN <<ptyexec>>
    ELSE <<"/usr/bin/script", "-q", "-t", "1", "/dev/null">>

\* mutant of BuildCmd: the volume argument is added whatever the version
BuildCmd_always(os_version, ptyexec) ==
    Wrapper(ptyexec)
    \o <<"startosinstall_path", "--agreetolicense",
         "--applicationpath", "app_path",
         "--rebootdelay", "300",
         "--pidtosignal", "pid",
         "--nointeraction">>
    \o <<"--volume", "/">>

\* osinstaller.py:174-192  the command start() launches
BuildCmd(os_version, ptyexec) ==
    Wrapper(ptyexec)
    \o <<"startosinstall_path", "--agreetolicense",
         "--applicationpath", "app_path",
         "--rebootdelay", "300",
         "--pidtosignal", "pid",
         "--nointeraction">>
    \o (IF LooseLess(MunkiLooseVersion(os_version),
                     MunkiLooseVersion(S_10_12_4))
        THEN <<"--volume", "/">>
        ELSE <<>>)

\* version strings the installer application may carry
MaxVersionParts == 3
VersionParts == {<<"3">>, <<"4">>, <<"5">>, <<"1","0">>, <<"1","2">>,
                 <<"1","3">>}
RECURSIVE JoinDots(_)
JoinDots(parts) ==
    IF parts = <<>> THEN <<>>
    ELSE IF Len(parts) = 1 THEN parts[1]
    ELSE parts[1] \o <<".">> \o JoinDots(Tail(parts))
VersionStrings ==
    {JoinDots(ps) : ps \in SeqsUpTo(VersionParts, MaxVersionParts)}
Plists ==
    {[isfile |-> FALSE, readable |-> FALSE, version |-> <<>>],
     [isfile |-> TRUE, readable |-> FALSE, version |-> <<>>]}
    \cup {[isfile |-> TRUE, readable |-> TRUE, version |-> v] :
            v \in VersionStrings}
PtyexecPaths == {"parent_dir/ptyexec", "/usr/local/munki/ptyexec", "none"}

CmdInit ==
    /\ Quiet
    /\ LogoutIdle
    /\ \E plist \in Plists, ptyexec \in PtyexecPaths :
          call = <<"build_cmd", plist, ptyexec>>
    /\ ret = <<>>

BuildCmdCall ==
    /\ Calling("build_cmd")
    /\ ret' = <<BuildCmd(get_os_version(call[2]), call[3])>>
    /\ UNCHANGED <<mainVars, logoutVars, call>>

CmdNext == BuildCmdCall

SpecCmd == CmdInit /\ [][CmdNext]_vars

\* the i-th component of the resolved version, 0 when it has fewer
VersionPart(i) ==
    LET v == MunkiLooseVersion(get_os_version(call[2]))
    IN  IF i <= Len(v) THEN v[i] ELSE 0

\* the resolved version is below 10.12.4
Below_10_12_4 ==
    \/ VersionPart(1) < 10
    \/ VersionPart(1) = 10 /\ VersionPart(2) < 12
    \/ VersionPart(1) = 10 /\ VersionPart(2) = 12 /\ VersionPart(3) < 4

\* positions of the command that hold the volume flag
VolumeAt == {i \in 1..Len(ret[1]) : ret[1][i] = "--volume"}

\* C19: the command holds "--volume /" exactly once when the resolved
\* version is below 10.12.4 and not at all otherwise; an unknown (empty)
\* version is one of the two cases, never both and never a repeated flag.
C19_Thm ==
    Returned_("build_cmd")
    => /\ Below_10_12_4
          => /\ Cardinality(VolumeAt) = 1
             /\ \A i \in VolumeAt : i < Len(ret[1]) /\ ret[1][i + 1] = "/"
       /\ ~Below_10_12_4 => VolumeAt = {}
       /\ Cardinality(VolumeAt) <= 1

\* the plist could not be read, the version is unknown, and the command
\* was built with the volume argument once
C19_Witness ==
    /\ Returned_("build_cmd")
    /\ call[2].isfile
    /\ get_os_version(call[2]) = <<>>
    /\ Cardinality(VolumeAt) = 1


\* ------------------------------ osinstaller.py: the handler's frame
\* the state start() and startosinstall() keep, got_sigusr1 apart
orchestratorVars == <<pc, result, retcode, mountVars, handlerInstalled,
                      stopSent, loopVars>>

\* the step is made by the signal handler: it is entered, or one of its
\* statements runs
HandlerStep == hstack' # hstack

\* C20: a step of the SIGUSR1 handler, whatever instruction of the loop it
\* interrupts, leaves the captured output and the inactivity counter
\* unchanged; of the orchestrator's state it changes only got_sigusr1, from
\* False to True, and got_sigusr1 is never set back to False.
C20_Thm ==
    [][/\ HandlerStep
          => /\ UNCHANGED <<startosinstall_output, inactive>>
             /\ UNCHANGED orchestratorVars
             /\ (got_sigusr1' # got_sigusr1
                   => ~got_sigusr1 /\ got_sigusr1')
       /\ (got_sigusr1 => got_sigusr1')]_vars

\* the handler has set the flag, and is still running, inside a loop that
\* has captured output and counted an idle second
C20_Witness ==
    /\ hstack # <<>>
    /\ got_sigusr1
    /\ startosinstall_output # <<>>
    /\ inactive > 0
    /\ pc \in {"stop_check", "readline", "returncode", "no_output", "process"}


\* ------------------------------ osinstaller.py: the end of the loop
\* the loop was left at line 218, on an empty read with the child exited:
\* the two other breaks (lines 213 and 228) call job.stop() first
LeftOnChildExit == AfterLoop /\ ~stopSent

\* C21: when the loop is left because the child has exited, every line the
\* child wrote to its standard output has been read and appended to the
\* captured output, in the order written.
C21_Claim == LeftOnChildExit => startosinstall_output = written


\* ------------------------------ osinstaller.py: termination of the loop
\* the statements of start() other than the processing of a line that was
\* read
ControlStep ==
    \/ InstallHandler
    \/ GetAppPath
    \/ Launch
    \/ StopCheck
    \/ ReadLine
    \/ CheckReturncode
    \/ NoOutput
    \/ Percent100
    \/ GetRetcode
    \/ CheckRetcode
    \/ CheckSignal

\* the statements of sigusr1_handler, once it has been entered
HandlerRun == HandlerFlag \/ HandlerTasks \/ HandlerMarker \/ HandlerReply

\* weak fairness of ProcessLine.  ProcessLine is enabled exactly when
\* Running("process") holds and each of its steps leaves "process", so
\* WF_vars(ProcessLine) says the same as: again and again the main thread
\* is not waiting at line 234 with a line to process.
ProcessLineFair == []<>~Running("process")

\* a runner that was given finishing tasks, for any kind of installer (the
\* handler of a runner without them does the same, less the call at line 96)
LiveInit ==
    /\ RunnerInit
    /\ installer \in {"app", "dmg", "other"}
    /\ hasTasks = TRUE
    /\ LibIdle

\* the interpreter goes on running the main thread: a statement of start()
\* that can run does run, and a handler that was entered runs to its end.
\* Nothing is assumed of the child, of the signal or of the stop request.
SpecLive ==
    /\ LiveInit
    /\ [][Next]_vars
    /\ WF_vars(ControlStep)
    /\ WF_vars(HandlerRun)
    /\ ProcessLineFair

\* osinstaller.py:210-263  the body of the while loop
InLoop == pc \in {"stop_check", "readline", "returncode", "no_output",
                  "process"}

\* C22: the loop is always left in the end, whether the child exits, a
\* stop is requested or the child stays silent (the child writes finitely
\* many lines), and no run of consecutive empty reads is longer than
\* timeout.
C22_Thm ==
    /\ InLoop ~> ~InLoop
    /\ [](emptyReads <= timeout)

\* the child stayed silent and alive, and the loop was left on the empty
\* read that made the count reach timeout
C22_Witness ==
    /\ AfterLoop
    /\ stalled
    /\ childState = "running"
    /\ ~stop_flag
    /\ written = <<>>
    /\ emptyReads = timeout

====
